---- MODULE Spec2Model ----
(***************************************************************************)
(* Model of realm::util::Substituter (realm/util/substitute.hpp): the      *)
(* variable table, parse(), Template::expand() and the bindings created    *)
(* through ProtoDef::operator=.                                            *)
(*                                                                         *)
(* Text is a sequence of one-character strings.  Offsets are the 0-based   *)
(* size_type offsets of the C++ code; substr and find below translate them *)
(* to the 1-based sequences of TLA+.                                       *)
(***************************************************************************)
EXTENDS Integers, Sequences, FiniteSets, TLC

\* ------------------------------------------------------------------------
\* Bounds of the model
\* ------------------------------------------------------------------------
MaxLen == 4

MaxDefines == 2

MaxParses == 2

MaxTicks == 2

\* ------------------------------------------------------------------------
\* Input sets
\* ------------------------------------------------------------------------
Alphabet == {"@", "{", "}", "x", "y"}

SeqsUpTo(S, n) == UNION {[1..k -> S] : k \in 0..n}

Texts == SeqsUpTo(Alphabet, MaxLen)

\* "<@x:@y>", "100% @@ done", "@{missing}" and a few texts that take every
\* branch of the scan.
TextXY == <<"<", "@", "x", ":", "@", "y", ">">>

TextDone == <<"1", "0", "0", "%", " ", "@", "@", " ", "d", "o", "n", "e">>

TextMissing == <<"@", "{", "m", "i", "s", "s", "i", "n", "g", "}">>

ScenarioTexts ==
    { TextXY, TextDone, TextMissing,
      <<"@", "{", "x", "}", "@", "{", "y">>,
      <<"@", "y", "a", "@">>,
      <<"x", "y">> }

TemplateTexts == ScenarioTexts

Names == {<<"x">>, <<"y">>}

Threads == {1, 2}

\* Variable names that hold the marker byte, and x.
MarkerNames == {<<"@">>, <<"@", "@">>, <<"x">>}

\* The parameter packs A... an engine is instantiated with: Substituter<A, B>
\* as in the documented example, and Substituter<D, A> where D derives from A.
EngineTypes == { <<"A", "B">>, <<"D", "A">> }

Owners == {"A", "B"}

\* ------------------------------------------------------------------------
\* std::string_view helpers
\* ------------------------------------------------------------------------
npos == -1

Min(S) == CHOOSE m \in S : \A n \in S : m <= n

\* text.substr(pos, n), text.substr(pos)
substr(s, pos, n) == SubSeq(s, pos + 1, IF pos + n > Len(s) THEN Len(s) ELSE pos + n)

substrFrom(s, pos) == SubSeq(s, pos + 1, Len(s))

\* Variant of find: the search starts at the first byte whatever pos is.
find_FromStart(s, ch, pos) ==
    LET hits == {i \in 0..(Len(s) - 1) : s[i + 1] = ch}
    IN  IF hits = {} THEN npos ELSE Min(hits)

\* text.find(ch, pos)
find(s, ch, pos) ==
    LET hits == {i \in pos..(Len(s) - 1) : s[i + 1] = ch}
    IN  IF hits = {} THEN npos ELSE Min(hits)

\* ------------------------------------------------------------------------
\* operator<<(std::ostream&, int) under the stream's basefield flag
\* ------------------------------------------------------------------------
DigitChars == <<"0", "1", "2", "3", "4", "5", "6", "7", "8", "9",
                "a", "b", "c", "d", "e", "f">>

RECURSIVE Digits(_, _)
Digits(n, base) ==
    IF n < base THEN <<DigitChars[n + 1]>>
    ELSE Digits(n \div base, base) \o <<DigitChars[(n % base) + 1]>>

DefaultFlags == {"dec", "skipws"}

SetHex(flags) == (flags \ {"dec", "oct"}) \cup {"hex"}

ToText(n, flags) == Digits(n, IF "hex" \in flags THEN 16 ELSE 10)

\* ------------------------------------------------------------------------
\* Substitution, Template
\* ------------------------------------------------------------------------
\* var_def is a pointer to an entry of m_variables: <<>> is nullptr and
\* <<name>> points to the entry whose key is name.
NullPtr == <<>>

PtrTo(name) == <<name>>

\* Variant of Substitution: end is the offset of the marker, as begin is.
Substitution_EndAtMarker(b, e, v) == [begin |-> b, end |-> b, var_def |-> v]

Substitution(b, e, v) == [begin |-> b, end |-> e, var_def |-> v]

EmptyTemplate == [m_text |-> <<>>, m_substitutions |-> <<>>]

\* ------------------------------------------------------------------------
\* Bindings: the closures ProtoDef::operator= installs
\* ------------------------------------------------------------------------
ValueBinding == [kind |-> "value", owner |-> "-", body |-> "-"]

FieldBinding(C) == [kind |-> "field", owner |-> C, body |-> "-"]

CustomBinding(b) == [kind |-> "custom", owner |-> "-", body |-> b]

Bindings == {ValueBinding} \cup {FieldBinding(C) : C \in Owners}
              \cup {CustomBinding(b) : b \in {"fmt", "throw"}}

\* std::is_convertible<P, const T*>: the context type is T or derives from T.
Convertible(argType, T) == argType = T \/ (argType = "D" /\ T = "A")

\* Variant of FindArg1: the last argument whose type converts to T.
FindArg1_Last(T, types, i) ==
    LET m == {k \in i..Len(types) : Convertible(types[k], T)}
    IN  IF m = {} THEN 0 ELSE CHOOSE k \in m : \A n \in m : n <= k

\* FindArg1<T, A...>::find: the first argument whose type converts to T.
\* 0 stands for FindArg1<T> with an empty pack, which has no definition.
RECURSIVE FindArg1(_, _, _)
FindArg1(T, types, i) ==
    IF i > Len(types) THEN 0
    ELSE IF Convertible(types[i], T) THEN i
    ELSE FindArg1(T, types, i + 1)

\* The loggers of a program: the built-in one that writes to stderr, one the
\* caller names in SubstituterConfig::logger, one the caller passes to parse.
s_default_logger == "stderr"

Loggers == {s_default_logger, "configured", "supplied"}

\* m_logger{config.logger ? *config.logger : s_default_logger}
BoundLogger(config_logger) ==
    IF config_logger # NullPtr THEN config_logger[1] ELSE s_default_logger

VARIABLES
    m_lenient,      \* SubstituterConfig::lenient
    m_logger,       \* the logger the constructor bound the engine to
    types,          \* the engine's parameter pack A...
    m_variables,    \* Substituter::m_variables
    templ,          \* the caller's Template object
    call,           \* the last define or parse call: arguments and results
    scan,           \* a parse call in progress: its text and its locals
    ctx,            \* the caller's context objects, one int field each
    val,            \* the variable a value binding points to
    thr,            \* per thread: one expand call and its sink
    definesLeft,    \* calls the caller still makes, by kind
    parsesLeft,
    ticksLeft

vars == <<m_lenient, m_logger, types, m_variables, templ, call, scan, ctx, val, thr,
          definesLeft, parsesLeft, ticksLeft>>

\* ------------------------------------------------------------------------
\* Substituter::parse(text, templ, logger)
\* ------------------------------------------------------------------------
\* Variant of LogLevel: every diagnostic is an error.
LogLevel_AlwaysError(lenient) == "error"

LogLevel(lenient) == IF lenient THEN "warn" ELSE "error"

Diag(level, msg, var_name, excerpt) ==
    [level |-> level, msg |-> msg, var_name |-> var_name, excerpt |-> excerpt]

\* The locals of parse on entry to the scan loop.
ParseStart ==
    [curr |-> 0, error |-> FALSE, substitutions |-> <<>>, log |-> <<>>,
     done |-> FALSE]

\* No parse call in progress. A call in progress has its text, its locals
\* st and the number of iterations of the loop it has made.
NoScan == [active |-> FALSE, text |-> <<>>, st |-> ParseStart, iters |-> 0]

\* Variant of OnUndefined: the reference is pushed as a Substitution without a
\* variable instead of being skipped.
OnUndefined_Pushes(st, lenient, text, i, curr, var_name) ==
    [st EXCEPT !.log = Append(@, Diag(LogLevel(lenient),
                           "Undefined variable %1 in substitution %2",
                           var_name, substr(text, i, curr - i))),
               !.error = TRUE,
               !.curr = curr,
               !.substitutions = Append(@, Substitution(i, curr, NullPtr))]

\* The locals after a reference to a name that is not in m_variables: the
\* diagnostic, error = true and continue, with no Substitution pushed.
OnUndefined(st, lenient, text, i, curr, var_name) ==
    [st EXCEPT !.log = Append(@, Diag(LogLevel(lenient),
                           "Undefined variable %1 in substitution %2",
                           var_name, substr(text, i, curr - i))),
               !.error = TRUE,
               !.curr = curr]

\* Variant of OnUnterminated: the scan stops at the error.
OnUnterminated_Breaks(st, lenient, i) ==
    [st EXCEPT !.log = Append(@, Diag(LogLevel(lenient),
                           "Unterminated @{", <<>>, <<>>)),
               !.error = TRUE,
               !.done = TRUE]

\* The locals after an @{ without a closing brace: the diagnostic, error =
\* true, curr = i + 2 and continue, with no Substitution pushed.
OnUnterminated(st, lenient, i) ==
    [st EXCEPT !.log = Append(@, Diag(LogLevel(lenient),
                           "Unterminated @{", <<>>, <<>>)),
               !.error = TRUE,
               !.curr = i + 2]

\* Variant of OnTrailing: a marker at the end of the text is plain text.
OnTrailing_Accepts(st, lenient) == [st EXCEPT !.done = TRUE]

\* The locals after a marker that is the last byte of the text: the
\* diagnostic, error = true and break.
OnTrailing(st, lenient) ==
    [st EXCEPT !.log = Append(@, Diag(LogLevel(lenient),
                           "Unterminated @ at end of text", <<>>, <<>>)),
               !.error = TRUE,
               !.done = TRUE]

\* Variant of BracedName: the name ends at the first marker inside the
\* braces.
BracedName_UpToMarker(text, i, j) ==
    LET m == find(text, "@", i + 2)
    IN  substr(text, i + 2, (IF m # npos /\ m < j THEN m ELSE j) - (i + 2))

\* var_name = text.substr(i + 2, j - (i + 2)) for @{ at i and } at j
BracedName(text, i, j) == substr(text, i + 2, j - (i + 2))

\* One iteration of the for (;;) loop; done is set by the two breaks.
ParseIter(text, variables, lenient, st) ==
    LET end == Len(text)
        i   == find(text, "@", st.curr)
    IN  IF i = npos THEN [st EXCEPT !.done = TRUE]
        ELSE IF i + 1 = end THEN OnTrailing(st, lenient)
        ELSE
            LET ch == text[(i + 1) + 1]
                j  == find(text, "}", i + 2)
            IN  IF ch = "{" /\ j = npos THEN OnUnterminated(st, lenient, i)
                ELSE
                    LET var_name == IF ch = "{" THEN BracedName(text, i, j)
                                    ELSE substr(text, i + 1, 1)
                        curr     == IF ch = "{" THEN j + 1 ELSE i + 2
                    IN  IF ch # "@" /\ var_name \notin DOMAIN variables THEN
                            OnUndefined(st, lenient, text, i, curr, var_name)
                        ELSE
                            [st EXCEPT !.curr = curr,
                                       !.substitutions =
                                           Append(@, Substitution(i, curr,
                                               IF ch # "@" THEN PtrTo(var_name)
                                               ELSE NullPtr))]

RECURSIVE ParseLoop(_, _, _, _)
ParseLoop(text, variables, lenient, st) ==
    IF st.done THEN st
    ELSE ParseLoop(text, variables, lenient, ParseIter(text, variables, lenient, st))

\* Variant of ParseReturn: any error fails the parse.
ParseReturn_IgnoresLenient(error, lenient) == ~error

\* The value parse returns after the loop.
ParseReturn(error, lenient) == ~(error /\ ~lenient)

\* Variant of ParseStore: the Substitutions are added to those the Template
\* already holds.
ParseStore_Appends(old, text, substitutions, ret) ==
    IF ret THEN [m_text |-> text,
                 m_substitutions |-> old.m_substitutions \o substitutions]
    ELSE old

\* What parse leaves in the caller's Template.
ParseStore(old, text, substitutions, ret) ==
    IF ret THEN [m_text |-> text, m_substitutions |-> substitutions] ELSE old

\* ------------------------------------------------------------------------
\* Substituter::define and ProtoDef::operator=
\* ------------------------------------------------------------------------
\* std::map::emplace: the map afterwards and whether the entry was inserted.
emplace(m, name, func) ==
    IF name \in DOMAIN m THEN [map |-> m, second |-> FALSE]
    ELSE [map    |-> [n \in DOMAIN m \cup {name} |-> IF n = name THEN func ELSE m[n]],
          second |-> TRUE]

\* Variant of define: a second definition replaces the first.
define_Overwrites(m, name, func) ==
    [m_variables |-> [n \in DOMAIN m \cup {name} |-> IF n = name THEN func ELSE m[n]],
     thrown      |-> "none"]

define(m, name, func) ==
    LET p == emplace(m, name, func)
    IN  [m_variables |-> p.map,
         thrown      |-> IF ~p.second THEN "runtime_error" ELSE "none"]

\* ProtoDef::operator=(T C::*) instantiates FindArg1<C, A...>; with no
\* convertible context type the instantiation has no definition and the
\* definition is rejected when the program is built.
WellFormed(binding, argTypes) ==
    binding.kind = "field" => FindArg1(binding.owner, argTypes, 1) # 0

ProtoDefAssign(m, name, binding, argTypes) ==
    IF ~WellFormed(binding, argTypes)
    THEN [m_variables |-> m, thrown |-> "ill_formed"]
    ELSE define(m, name, binding)

\* ------------------------------------------------------------------------
\* Sinks and evaluators
\* ------------------------------------------------------------------------
NewSink(flags) == [buf |-> <<>>, flags |-> flags, fill |-> " "]

Write(out, s) == [out EXCEPT !.buf = @ \o s]

\* Variant of FieldValue: the field is read from the first argument.
FieldValue_FirstArg(C, arg, argTypes) == arg[1]

\* obj.*var with obj = FindArg1<C, A...>::find(arg...)
FieldValue(C, arg, argTypes) == arg[FindArg1(C, argTypes, 1)]

\* Variant of BoundValue: the value is read from the first argument.
BoundValue_FromContext(arg, value) == arg[1]

\* *var, with var the pointer the closure of a value binding holds: what
\* the pointed variable holds when the closure runs.
BoundValue(arg, value) == value

\* The closure bound to a variable, run on sink out with arguments arg.
Eval(binding, out, arg, argTypes, value) ==
    CASE binding.kind = "value" ->
            [out |-> Write(out, ToText(BoundValue(arg, value), out.flags)),
             threw |-> FALSE]
      [] binding.kind = "field" ->
            [out |-> Write(out, ToText(FieldValue(binding.owner, arg, argTypes),
                                       out.flags)),
             threw |-> FALSE]
      [] binding.kind = "custom" /\ binding.body = "fmt" ->
            LET o == [out EXCEPT !.flags = SetHex(@), !.fill = "*"]
            IN  [out |-> Write(o, ToText(arg[1], o.flags)), threw |-> FALSE]
      [] binding.kind = "custom" /\ binding.body = "throw" ->
            [out |-> [out EXCEPT !.flags = SetHex(@), !.fill = "*"],
             threw |-> TRUE]

SinkFlags == {DefaultFlags, SetHex(DefaultFlags)}

\* The formatting state of a sink.
Formatting(out) == [flags |-> out.flags, fill |-> out.fill]

\* pre is the formatting state of the sink just before the evaluator that
\* ran last was called (that of the fresh sink before any has run); fault
\* tells what threw in the call: nothing, the sink's write or an evaluator.
\* conv: the call is one of Substituter::expand, with its text, the value
\* it returned and what it logged.
NoConv == [made |-> FALSE, text |-> <<>>, ret |-> FALSE, log |-> <<>>]

Conv(text, ret, log) == [made |-> TRUE, text |-> text, ret |-> ret, log |-> log]

IdleThread ==
    [pc |-> "idle", flags |-> {}, curr |-> 0, idx |-> 1, out |-> NewSink({}),
     pre |-> Formatting(NewSink({})), fault |-> "none", conv |-> NoConv]

\* The pieces of text expand writes besides the evaluators' output.
\* Variant of LiteralBefore: the marker bytes of the literal are left out.
LiteralBefore_NoMarkers(text, curr, subst) ==
    SelectSeq(substr(text, curr, subst.begin - curr), LAMBDA c : c # "@")

LiteralBefore(text, curr, subst) == substr(text, curr, subst.begin - curr)

\* Variant of EscapeText: the two bytes of the escape are written.
EscapeText_Both == <<"@", "@">>

EscapeText == <<"@">>

\* Variant of TailText: the tail starts one byte late.
TailText_OffByOne(text, curr) == substrFrom(text, curr + 1)

TailText(text, curr) == substrFrom(text, curr)

AllIdle == \A t \in Threads : thr[t].pc = "idle"

\* ------------------------------------------------------------------------
\* Initial state: a constructed engine, no variable defined, a default
\* constructed Template, context objects with their fields at 0.
\* ------------------------------------------------------------------------
\* The answer of templ.refers_to(name) asked after a parse; none asked yet.
NoQuery == [name |-> <<>>, ret |-> FALSE, made |-> FALSE]

Query(name, ret) == [name |-> name, ret |-> ret, made |-> TRUE]

\* What a define call made right after a parse keeps of that parse: its
\* text, the table it read, its result; none for the other calls.
NoPrior ==
    [made |-> FALSE, text |-> <<>>, variables |-> <<>>, ret |-> FALSE,
     substitutions |-> <<>>]

Prior(c) ==
    [made |-> TRUE, text |-> c.text, variables |-> c.variables, ret |-> c.ret,
     substitutions |-> c.substitutions]

\* What each logger received from a call that logged log to logger.
Deliver(logger, log) == [l \in Loggers |-> IF l = logger THEN log ELSE <<>>]

\* again: the call is a parse of the text of the call before it, with the
\* variable table that call had; asked: the last refers_to since the call;
\* logger_arg: the Logger& argument of the call, NullPtr when it has none;
\* sent: what each logger received during the call.
CallRecord(op, name, binding, thrown, text, variables, ret, log, substitutions, again) ==
    [op |-> op, name |-> name, binding |-> binding, thrown |-> thrown,
     text |-> text, variables |-> variables, ret |-> ret, log |-> log,
     substitutions |-> substitutions, again |-> again, asked |-> NoQuery,
     logger_arg |-> NullPtr, sent |-> Deliver(s_default_logger, <<>>),
     prior |-> NoPrior]

NoCall ==
    CallRecord("none", <<>>, ValueBinding, "none", <<>>, <<>>, FALSE, <<>>, <<>>,
               FALSE)

DefineCall(name, binding, thrown) ==
    CallRecord("define", name, binding, thrown, <<>>, <<>>, FALSE, <<>>, <<>>,
               FALSE)

ParseCall(text, variables, ret, log, substitutions, again) ==
    CallRecord("parse", <<>>, ValueBinding, "none", text, variables, ret, log,
               substitutions, again)

Init ==
    /\ m_lenient \in BOOLEAN
    /\ m_logger = BoundLogger(NullPtr)
    /\ types \in EngineTypes
    /\ m_variables = <<>>
    /\ templ = EmptyTemplate
    /\ call = NoCall
    /\ scan = NoScan
    /\ ctx = [i \in 1..2 |-> 0]
    /\ val = 10
    /\ thr = [t \in Threads |-> IdleThread]
    /\ definesLeft = MaxDefines
    /\ parsesLeft = MaxParses
    /\ ticksLeft = MaxTicks

\* ------------------------------------------------------------------------
\* Actions
\* ------------------------------------------------------------------------
\* subst[name] = binding
Define(name, binding) ==
    /\ AllIdle
    /\ definesLeft > 0
    /\ LET r == ProtoDefAssign(m_variables, name, binding, types)
       IN  /\ m_variables' = r.m_variables
           /\ call' = DefineCall(name, binding, r.thrown)
    /\ definesLeft' = definesLeft - 1
    /\ UNCHANGED <<m_lenient, m_logger, scan, types, templ, ctx, val, thr, parsesLeft, ticksLeft>>

\* Variant of DefineAfterParse: the first parse closes the setup phase and
\* a later definition is rejected.
DefineAfterParse_Rejected(name, binding) ==
    /\ AllIdle
    /\ definesLeft > 0
    /\ call.op = "parse"
    /\ call' = [DefineCall(name, binding, "runtime_error") EXCEPT !.prior = Prior(call)]
    /\ definesLeft' = definesLeft - 1
    /\ UNCHANGED <<m_lenient, m_logger, scan, types, m_variables, templ, ctx, val,
                   thr, parsesLeft, ticksLeft>>

\* subst[name] = binding as the first call after a parse
DefineAfterParse(name, binding) ==
    /\ AllIdle
    /\ definesLeft > 0
    /\ call.op = "parse"
    /\ LET r == ProtoDefAssign(m_variables, name, binding, types)
       IN  /\ m_variables' = r.m_variables
           /\ call' = [DefineCall(name, binding, r.thrown) EXCEPT !.prior = Prior(call)]
    /\ definesLeft' = definesLeft - 1
    /\ UNCHANGED <<m_lenient, m_logger, scan, types, templ, ctx, val, thr,
                   parsesLeft, ticksLeft>>

\* Variant of ParseLogger: the two argument overload logs to the built-in
\* logger.
ParseLogger_Default(logger_arg) ==
    IF logger_arg # NullPtr THEN logger_arg[1] ELSE s_default_logger

\* The logger a parse call logs to: the Logger& argument, and m_logger for
\* the overload without one.
ParseLogger(logger_arg) ==
    IF logger_arg # NullPtr THEN logger_arg[1] ELSE m_logger

\* subst.parse(text, templ, logger), and subst.parse(text, templ) when
\* logger_arg is NullPtr
ParseInto(text, logger_arg) ==
    /\ AllIdle
    /\ parsesLeft > 0
    /\ LET st  == ParseLoop(text, m_variables, m_lenient, ParseStart)
           ret == ParseReturn(st.error, m_lenient)
       IN  /\ templ' = ParseStore(templ, text, st.substitutions, ret)
           /\ call' = [ParseCall(text, m_variables, ret, st.log, st.substitutions,
                                 call.op = "parse" /\ call.text = text
                                     /\ call.variables = m_variables)
                          EXCEPT !.logger_arg = logger_arg,
                                 !.sent = Deliver(ParseLogger(logger_arg), st.log)]
    /\ parsesLeft' = parsesLeft - 1
    /\ UNCHANGED <<m_lenient, m_logger, scan, types, m_variables, ctx, val, thr, definesLeft,
                   ticksLeft>>

\* subst.parse(text, templ)
Parse(text) == ParseInto(text, NullPtr)

\* subst.parse(text, templ) one iteration at a time: entry
ParseEnter(text) ==
    /\ AllIdle
    /\ ~scan.active
    /\ parsesLeft > 0
    /\ scan' = [active |-> TRUE, text |-> text, st |-> ParseStart, iters |-> 0]
    /\ parsesLeft' = parsesLeft - 1
    /\ UNCHANGED <<m_lenient, m_logger, types, m_variables, templ, call, ctx, val,
                   thr, definesLeft, ticksLeft>>

\* One iteration of the for (;;) loop of the call in progress
ParseStep ==
    /\ scan.active
    /\ ~scan.st.done
    /\ scan' = [scan EXCEPT !.st = ParseIter(scan.text, m_variables, m_lenient, @),
                            !.iters = @ + 1]
    /\ UNCHANGED <<m_lenient, m_logger, types, m_variables, templ, call, ctx, val,
                   thr, definesLeft, parsesLeft, ticksLeft>>

\* After the loop: the return value and the assignments to the Template
ParseExit ==
    /\ scan.active
    /\ scan.st.done
    /\ LET st  == scan.st
           ret == ParseReturn(st.error, m_lenient)
       IN  /\ templ' = ParseStore(templ, scan.text, st.substitutions, ret)
           /\ call' = [ParseCall(scan.text, m_variables, ret, st.log,
                                 st.substitutions,
                                 call.op = "parse" /\ call.text = scan.text
                                     /\ call.variables = m_variables)
                          EXCEPT !.sent = Deliver(ParseLogger(NullPtr), st.log)]
    /\ scan' = NoScan
    /\ UNCHANGED <<m_lenient, m_logger, types, m_variables, ctx, val, thr,
                   definesLeft, parsesLeft, ticksLeft>>

\* subst.parse(text, templ, logger) with a logger of the caller
ParseLogged(text) == ParseInto(text, PtrTo("supplied"))

\* Variant of refers_to: a Substitution without a variable counts as one of
\* the variable named by its one byte.
refers_to_CountsEscapes(t, name) ==
    \E k \in DOMAIN t.m_substitutions :
        \/ t.m_substitutions[k].var_def = PtrTo(name)
        \/ /\ t.m_substitutions[k].var_def = NullPtr
           /\ name = substr(t.m_text, t.m_substitutions[k].begin + 1, 1)

\* Template::refers_to(name)
refers_to(t, name) ==
    \E k \in DOMAIN t.m_substitutions :
        /\ t.m_substitutions[k].var_def # NullPtr
        /\ t.m_substitutions[k].var_def[1] = name

\* The names a caller asks refers_to about: the defined ones and the marker.
QueryNames == Names \cup {<<"@">>}

\* templ.refers_to(name), called between the other calls
RefersTo(name) ==
    /\ AllIdle
    /\ call.op = "parse"
    /\ call' = [call EXCEPT !.asked = Query(name, refers_to(templ, name))]
    /\ UNCHANGED <<m_lenient, m_logger, scan, types, m_variables, templ, ctx, val, thr,
                   definesLeft, parsesLeft, ticksLeft>>

\* Variant of ExpandBegin: the call takes the Substitutions out of the
\* Template, which is left empty.
ExpandBegin_TakesTemplate(t, f) ==
    /\ thr[t].pc = "idle"
    /\ thr' = [thr EXCEPT ![t] = [pc |-> "loop", flags |-> NewSink(f).flags,
                                  curr |-> 0, idx |-> 1, out |-> NewSink(f),
                                  pre |-> Formatting(NewSink(f)),
                                  fault |-> "none", conv |-> NoConv]]
    /\ templ' = EmptyTemplate
    /\ UNCHANGED <<m_lenient, m_logger, scan, types, m_variables, call, ctx, val,
                   definesLeft, parsesLeft, ticksLeft>>

\* templ.expand(out, a, b): entry, flags = out.flags()
ExpandBegin(t, f) ==
    /\ thr[t].pc = "idle"
    /\ thr' = [thr EXCEPT ![t] = [pc |-> "loop", flags |-> NewSink(f).flags,
                                  curr |-> 0, idx |-> 1, out |-> NewSink(f),
                                  pre |-> Formatting(NewSink(f)),
                                  fault |-> "none", conv |-> NoConv]]
    /\ UNCHANGED <<m_lenient, m_logger, scan, types, m_variables, templ, call, ctx, val,
                   definesLeft, parsesLeft, ticksLeft>>

\* One substitution: the literal before it, then the evaluator or the "@".
ExpandSubst(t) ==
    /\ thr[t].pc = "loop"
    /\ thr[t].idx <= Len(templ.m_substitutions)
    /\ LET me    == thr[t]
           subst == templ.m_substitutions[me.idx]
           out1  == Write(me.out, LiteralBefore(templ.m_text, me.curr, subst))
       IN  IF subst.var_def # NullPtr THEN
               LET r == Eval(m_variables[subst.var_def[1]], out1, ctx, types, val)
               IN  thr' = [thr EXCEPT ![t].out = r.out,
                                      ![t].pre = Formatting(out1),
                                      ![t].pc = IF r.threw THEN "caught"
                                                ELSE "evaluated",
                                      ![t].fault = IF r.threw THEN "evaluator"
                                                   ELSE "none"]
           ELSE
               thr' = [thr EXCEPT ![t].out = Write(out1, EscapeText),
                                  ![t].curr = subst.end,
                                  ![t].idx = @ + 1]
    /\ UNCHANGED <<m_lenient, m_logger, scan, types, m_variables, templ, call, ctx, val,
                   definesLeft, parsesLeft, ticksLeft>>

\* Variant of ExpandRestore: the flags are left as the evaluator set them.
ExpandRestore_KeepsFlags(t) ==
    /\ thr[t].pc = "evaluated"
    /\ thr' = [thr EXCEPT ![t].curr = templ.m_substitutions[thr[t].idx].end,
                          ![t].idx = @ + 1,
                          ![t].pc = "loop"]
    /\ UNCHANGED <<m_lenient, m_logger, scan, types, m_variables, templ, call, ctx, val,
                   definesLeft, parsesLeft, ticksLeft>>

\* out.flags(flags); curr = subst.end after the evaluator returned
ExpandRestore(t) ==
    /\ thr[t].pc = "evaluated"
    /\ thr' = [thr EXCEPT ![t].out.flags = thr[t].flags,
                          ![t].curr = templ.m_substitutions[thr[t].idx].end,
                          ![t].idx = @ + 1,
                          ![t].pc = "loop"]
    /\ UNCHANGED <<m_lenient, m_logger, scan, types, m_variables, templ, call, ctx, val,
                   definesLeft, parsesLeft, ticksLeft>>

\* Variant of ExpandTail: the cursor is one object shared by the calls, the
\* one of thread 1, instead of a local of each call.
ExpandTail_SharedCursor(t) ==
    /\ thr[t].pc = "loop"
    /\ thr[t].idx > Len(templ.m_substitutions)
    /\ thr' = [thr EXCEPT ![t].out = Write(@, TailText(templ.m_text, thr[1].curr)),
                          ![t].pc = "done"]
    /\ UNCHANGED <<m_lenient, m_logger, scan, types, m_variables, templ, call, ctx, val,
                   definesLeft, parsesLeft, ticksLeft>>

\* out << m_text.substr(curr) and return
ExpandTail(t) ==
    /\ thr[t].pc = "loop"
    /\ thr[t].idx > Len(templ.m_substitutions)
    /\ thr' = [thr EXCEPT ![t].out = Write(@, TailText(templ.m_text, thr[t].curr)),
                          ![t].pc = "done"]
    /\ UNCHANGED <<m_lenient, m_logger, scan, types, m_variables, templ, call, ctx, val,
                   definesLeft, parsesLeft, ticksLeft>>

\* The sink after an evaluator whose write to it throws: what the closure
\* did to the sink before the write stays, nothing is written.
EvalWriteThrows(binding, out) ==
    IF binding.kind = "custom"
    THEN [out EXCEPT !.flags = SetHex(@), !.fill = "*"]
    ELSE out

\* out << m_text.substr(curr, subst.begin - curr) throws: the sink's write
\* of the literal text fails and the exception leaves the loop.
ExpandLiteralThrows(t) ==
    /\ thr[t].pc = "loop"
    /\ thr[t].idx <= Len(templ.m_substitutions)
    /\ thr' = [thr EXCEPT ![t].pc = "caught", ![t].fault = "sink"]
    /\ UNCHANGED <<m_lenient, m_logger, scan, types, m_variables, templ, call, ctx, val,
                   definesLeft, parsesLeft, ticksLeft>>

\* The literal is written, then the write of the evaluator, or the write of
\* the "@" of an escape, throws.
ExpandValueThrows(t) ==
    /\ thr[t].pc = "loop"
    /\ thr[t].idx <= Len(templ.m_substitutions)
    /\ LET me    == thr[t]
           subst == templ.m_substitutions[me.idx]
           out1  == Write(me.out, LiteralBefore(templ.m_text, me.curr, subst))
       IN  IF subst.var_def # NullPtr THEN
               thr' = [thr EXCEPT ![t].out = EvalWriteThrows(
                                                 m_variables[subst.var_def[1]], out1),
                                  ![t].pre = Formatting(out1),
                                  ![t].pc = "caught",
                                  ![t].fault = "sink"]
           ELSE
               thr' = [thr EXCEPT ![t].out = out1,
                                  ![t].pc = "caught",
                                  ![t].fault = "sink"]
    /\ UNCHANGED <<m_lenient, m_logger, scan, types, m_variables, templ, call, ctx, val,
                   definesLeft, parsesLeft, ticksLeft>>

\* out << m_text.substr(curr) throws
ExpandTailThrows(t) ==
    /\ thr[t].pc = "loop"
    /\ thr[t].idx > Len(templ.m_substitutions)
    /\ thr' = [thr EXCEPT ![t].pc = "caught", ![t].fault = "sink"]
    /\ UNCHANGED <<m_lenient, m_logger, scan, types, m_variables, templ, call, ctx, val,
                   definesLeft, parsesLeft, ticksLeft>>

\* Variant of ExpandCatch: the exception is swallowed and the loop goes on
\* with the next substitution.
ExpandCatch_Resumes(t) ==
    /\ thr[t].pc = "caught"
    /\ thr' = [thr EXCEPT ![t].out.flags = thr[t].flags,
                          ![t].curr = IF thr[t].idx <= Len(templ.m_substitutions)
                                      THEN templ.m_substitutions[thr[t].idx].end
                                      ELSE @,
                          ![t].idx = @ + 1,
                          ![t].pc = IF thr[t].idx <= Len(templ.m_substitutions)
                                    THEN "loop" ELSE "thrown"]
    /\ UNCHANGED <<m_lenient, m_logger, scan, types, m_variables, templ, call, ctx, val,
                   definesLeft, parsesLeft, ticksLeft>>

\* catch (...) { out.flags(flags); throw; }
ExpandCatch(t) ==
    /\ thr[t].pc = "caught"
    /\ thr' = [thr EXCEPT ![t].out.flags = thr[t].flags,
                          ![t].pc = "thrown"]
    /\ UNCHANGED <<m_lenient, m_logger, scan, types, m_variables, templ, call, ctx, val,
                   definesLeft, parsesLeft, ticksLeft>>

\* Template::expand(out, arg...) run from entry to exit on one thread: the
\* sink afterwards and whether the call ended with an exception.
RECURSIVE ExpandRun(_, _, _, _, _)
ExpandRun(t, out, flags, curr, idx) ==
    IF idx > Len(t.m_substitutions)
    THEN [out |-> Write(out, TailText(t.m_text, curr)), threw |-> FALSE]
    ELSE LET subst == t.m_substitutions[idx]
             out1  == Write(out, LiteralBefore(t.m_text, curr, subst))
         IN  IF subst.var_def # NullPtr THEN
                 LET r == Eval(m_variables[subst.var_def[1]], out1, ctx, types, val)
                     o == [r.out EXCEPT !.flags = flags]
                 IN  IF r.threw THEN [out |-> o, threw |-> TRUE]
                     ELSE ExpandRun(t, o, flags, subst.end, idx + 1)
             ELSE ExpandRun(t, Write(out1, EscapeText), flags, subst.end, idx + 1)

\* Variant of ParseFresh: the Template is the caller's, not a fresh one.
ParseFresh_CallerTemplate(text) ==
    LET st  == ParseLoop(text, m_variables, m_lenient, ParseStart)
        ret == ParseReturn(st.error, m_lenient)
    IN  [templ |-> templ, ret |-> ret, log |-> st.log]

\* Template templ; parse(text, templ): the local Template, the value parse
\* returned and what it logged to m_logger.
ParseFresh(text) ==
    LET st  == ParseLoop(text, m_variables, m_lenient, ParseStart)
        ret == ParseReturn(st.error, m_lenient)
    IN  [templ |-> ParseStore(EmptyTemplate, text, st.substitutions, ret),
         ret   |-> ret,
         log   |-> st.log]

\* subst.expand(text, out, a, b): parse into a local Template and, if parse
\* succeeded, one expansion of it; pc "failed" is the return of false.
EngineExpand(t, text, f) ==
    /\ thr[t].pc = "idle"
    /\ LET p == ParseFresh(text)
           r == ExpandRun(p.templ, NewSink(f), NewSink(f).flags, 0, 1)
       IN  thr' = [thr EXCEPT ![t] =
                      [IdleThread EXCEPT
                          !.pc    = IF ~p.ret THEN "failed"
                                    ELSE IF r.threw THEN "thrown" ELSE "done",
                          !.flags = NewSink(f).flags,
                          !.out   = IF p.ret THEN r.out ELSE NewSink(f),
                          !.fault = IF p.ret /\ r.threw THEN "evaluator" ELSE "none",
                          !.conv  = Conv(text, p.ret, p.log)]]
    /\ UNCHANGED <<m_lenient, m_logger, scan, types, m_variables, templ, call, ctx, val,
                   definesLeft, parsesLeft, ticksLeft>>

\* The caller is done with the result of the call and its sink.
ExpandReturn(t) ==
    /\ thr[t].pc \in {"done", "thrown", "failed"}
    /\ thr' = [thr EXCEPT ![t] = IdleThread]
    /\ UNCHANGED <<m_lenient, m_logger, scan, types, m_variables, templ, call, ctx, val,
                   definesLeft, parsesLeft, ticksLeft>>

\* The caller's loop body of the documented example: a.y += 1; b.x += 2
Tick ==
    /\ AllIdle
    /\ ticksLeft > 0
    /\ ctx' = [i \in DOMAIN ctx |-> ctx[i] + i]
    /\ ticksLeft' = ticksLeft - 1
    /\ UNCHANGED <<m_lenient, m_logger, scan, types, m_variables, templ, call, val, thr,
                   definesLeft, parsesLeft>>

\* The caller stores to the variable a value binding points to.
Store ==
    /\ AllIdle
    /\ ticksLeft > 0
    /\ \E name \in DOMAIN m_variables : m_variables[name].kind = "value"
    /\ val' = val + 1
    /\ ticksLeft' = ticksLeft - 1
    /\ UNCHANGED <<m_lenient, m_logger, scan, types, m_variables, templ, call, ctx, thr,
                   definesLeft, parsesLeft>>

\* The engine in use by one thread: definitions with value and field
\* bindings, parses of the scenario texts, expansions, context updates.
SetupBindings == {ValueBinding} \cup {FieldBinding(C) : C \in Owners}

Next ==
    \/ \E name \in Names, binding \in SetupBindings : Define(name, binding)
    \/ parsesLeft > 0 /\ AllIdle /\ \E text \in TemplateTexts : Parse(text)
    \/ \E f \in SinkFlags : ExpandBegin(1, f)
    \/ ExpandSubst(1)
    \/ ExpandRestore(1)
    \/ ExpandTail(1)
    \/ ExpandReturn(1)
    \/ Tick
    \/ Store

Spec == Init /\ [][Next]_vars

\* ------------------------------------------------------------------------
\* The scan and the rendering over every text up to MaxLen: one engine
\* Substituter<A, B>, value bindings, one parse, expansions on one thread.
\* ------------------------------------------------------------------------
TextInputs == Texts \cup ScenarioTexts

InitText ==
    /\ m_lenient \in BOOLEAN
    /\ m_logger = BoundLogger(NullPtr)
    /\ types = <<"A", "B">>
    /\ m_variables = <<>>
    /\ templ = EmptyTemplate
    /\ call = NoCall
    /\ scan = NoScan
    /\ ctx = [i \in 1..2 |-> 0]
    /\ val = 10
    /\ thr = [t \in Threads |-> IdleThread]
    /\ definesLeft = MaxDefines
    /\ parsesLeft = 1
    /\ ticksLeft = 0

NextText ==
    \/ \E name \in Names : Define(name, ValueBinding)
    \/ parsesLeft > 0 /\ AllIdle /\ \E text \in TextInputs : Parse(text)
    \/ \E name \in QueryNames : RefersTo(name)
    \/ ExpandBegin(1, DefaultFlags)
    \/ ExpandSubst(1)
    \/ ExpandRestore(1)
    \/ ExpandTail(1)
    \/ ExpandReturn(1)

SpecText == InitText /\ [][NextText]_vars

TypeOK ==
    /\ m_lenient \in BOOLEAN
    /\ DOMAIN m_variables \subseteq Names \cup MarkerNames
    /\ \A t \in Threads : thr[t].pc \in {"idle", "loop", "evaluated", "caught", "done", "thrown", "failed"}

\* ------------------------------------------------------------------------
\* One template expanded by two threads at once, each with its own sink:
\* one engine Substituter<A, B>, bindings that change the sink's formatting
\* state or throw, one parse.
\* ------------------------------------------------------------------------
ThreadBindings == {FieldBinding("B"), CustomBinding("fmt"), CustomBinding("throw")}

InitThreads ==
    /\ m_lenient \in BOOLEAN
    /\ m_logger = BoundLogger(NullPtr)
    /\ types = <<"A", "B">>
    /\ m_variables = <<>>
    /\ templ = EmptyTemplate
    /\ call = NoCall
    /\ scan = NoScan
    /\ ctx = [i \in 1..2 |-> 0]
    /\ val = 10
    /\ thr = [t \in Threads |-> IdleThread]
    /\ definesLeft = MaxDefines
    /\ parsesLeft = 1
    /\ ticksLeft = 0

NextThreads ==
    \/ \E name \in Names, binding \in ThreadBindings : Define(name, binding)
    \/ parsesLeft > 0 /\ AllIdle /\ \E text \in TemplateTexts : Parse(text)
    \/ \E t \in Threads, f \in SinkFlags : ExpandBegin(t, f)
    \/ \E t \in Threads : ExpandSubst(t)
    \/ \E t \in Threads : ExpandRestore(t)
    \/ \E t \in Threads : ExpandTail(t)
    \/ \E t \in Threads : ExpandLiteralThrows(t)
    \/ \E t \in Threads : ExpandValueThrows(t)
    \/ \E t \in Threads : ExpandTailThrows(t)
    \/ \E t \in Threads : ExpandCatch(t)
    \/ \E t \in Threads : ExpandReturn(t)

SpecThreads == InitThreads /\ [][NextThreads]_vars

\* ------------------------------------------------------------------------
\* The engine's own calls side by side: engines bound to the built-in or to
\* a configured logger, parse with and without a Logger& argument, one
\* Template expanded on thread 1 and Substituter::expand called on thread 2.
\* ------------------------------------------------------------------------
EngineBindings == {ValueBinding, FieldBinding("B"), CustomBinding("throw")}

ConfigLoggers == {NullPtr, PtrTo("configured")}

InitEngine ==
    /\ m_lenient \in BOOLEAN
    /\ m_logger \in {BoundLogger(config_logger) : config_logger \in ConfigLoggers}
    /\ types = <<"A", "B">>
    /\ m_variables = <<>>
    /\ templ = EmptyTemplate
    /\ call = NoCall
    /\ scan = NoScan
    /\ ctx = [i \in 1..2 |-> 0]
    /\ val = 10
    /\ thr = [t \in Threads |-> IdleThread]
    /\ definesLeft = MaxDefines
    /\ parsesLeft = 1
    /\ ticksLeft = 0

NextEngine ==
    \/ \E name \in Names, binding \in EngineBindings : Define(name, binding)
    \/ parsesLeft > 0 /\ AllIdle /\ \E text \in TemplateTexts : Parse(text)
    \/ parsesLeft > 0 /\ AllIdle /\ \E text \in TemplateTexts : ParseLogged(text)
    \/ ExpandBegin(1, DefaultFlags)
    \/ ExpandSubst(1)
    \/ ExpandRestore(1)
    \/ ExpandTail(1)
    \/ ExpandCatch(1)
    \/ thr[2].pc = "idle" /\ \E text \in TemplateTexts :
                                 EngineExpand(2, text, DefaultFlags)
    \/ \E t \in Threads : ExpandReturn(t)

SpecEngine == InitEngine /\ [][NextEngine]_vars

\* ------------------------------------------------------------------------
\* Names that hold marker bytes: variables named "@" and "@@" beside x, texts
\* that refer to them in braces and texts with the escape, one parse,
\* expansions on one thread and refers_to.
\* ------------------------------------------------------------------------
NameBindings == {ValueBinding, FieldBinding("B")}

NameTexts ==
    {<<"@", "{", "@", "}">>,
     <<"@", "@">>,
     <<"@", "{", "@", "@", "}">>,
     <<"@", "{", "@", "@", "}", "@", "x">>,
     <<"@", "@", "@", "{", "@", "}">>,
     <<"@", "{", "x", "@", "y", "}">>,
     <<"x", "@", "{", "@", "}", "@", "@">>}

InitNames ==
    /\ m_lenient \in BOOLEAN
    /\ m_logger = BoundLogger(NullPtr)
    /\ types = <<"A", "B">>
    /\ m_variables = <<>>
    /\ templ = EmptyTemplate
    /\ call = NoCall
    /\ scan = NoScan
    /\ ctx = [i \in 1..2 |-> 0]
    /\ val = 10
    /\ thr = [t \in Threads |-> IdleThread]
    /\ definesLeft = MaxDefines
    /\ parsesLeft = 1
    /\ ticksLeft = 0

NextNames ==
    \/ \E name \in MarkerNames, binding \in NameBindings : Define(name, binding)
    \/ parsesLeft > 0 /\ AllIdle /\ \E text \in NameTexts : Parse(text)
    \/ \E name \in MarkerNames : RefersTo(name)
    \/ ExpandBegin(1, DefaultFlags)
    \/ ExpandSubst(1)
    \/ ExpandRestore(1)
    \/ ExpandTail(1)
    \/ ExpandReturn(1)

SpecNames == InitNames /\ [][NextNames]_vars

\* ------------------------------------------------------------------------
\* The scan loop of parse one iteration at a time, over every text up to
\* MaxLen, with at most one variable defined: a call of parse, once entered,
\* runs its iterations and returns.
\* ------------------------------------------------------------------------
InitScan ==
    /\ m_lenient \in BOOLEAN
    /\ m_logger = BoundLogger(NullPtr)
    /\ types = <<"A", "B">>
    /\ m_variables = <<>>
    /\ templ = EmptyTemplate
    /\ call = NoCall
    /\ scan = NoScan
    /\ ctx = [i \in 1..2 |-> 0]
    /\ val = 10
    /\ thr = [t \in Threads |-> IdleThread]
    /\ definesLeft = 1
    /\ parsesLeft = 1
    /\ ticksLeft = 0

NextScan ==
    \/ ~scan.active /\ \E name \in Names : Define(name, ValueBinding)
    \/ parsesLeft > 0 /\ ~scan.active /\ \E text \in TextInputs : ParseEnter(text)
    \/ ParseStep
    \/ ParseExit

SpecScan ==
    /\ InitScan
    /\ [][NextScan]_vars
    /\ WF_vars(ParseStep)
    /\ WF_vars(ParseExit)

\* ------------------------------------------------------------------------
\* Definitions before and after parses: one engine Substituter<A, B>,
\* definitions that succeed or repeat a name, parses of two texts with the
\* references @x and @y, expansions on one thread between the calls.
\* ------------------------------------------------------------------------
TextTwoRefs == <<"@", "x", "@", "y">>

SetupTexts == {TextXY, TextTwoRefs}

InitSetup ==
    /\ m_lenient \in BOOLEAN
    /\ m_logger = BoundLogger(NullPtr)
    /\ types = <<"A", "B">>
    /\ m_variables = <<>>
    /\ templ = EmptyTemplate
    /\ call = NoCall
    /\ scan = NoScan
    /\ ctx = [i \in 1..2 |-> 0]
    /\ val = 10
    /\ thr = [t \in Threads |-> IdleThread]
    /\ definesLeft = MaxDefines
    /\ parsesLeft = MaxParses
    /\ ticksLeft = 0

NextSetup ==
    \/ call.op # "parse" /\ \E name \in Names, binding \in SetupBindings :
                                Define(name, binding)
    \/ \E name \in Names, binding \in SetupBindings : DefineAfterParse(name, binding)
    \/ parsesLeft > 0 /\ AllIdle /\ \E text \in SetupTexts : Parse(text)
    \/ ExpandBegin(1, DefaultFlags)
    \/ ExpandSubst(1)
    \/ ExpandRestore(1)
    \/ ExpandTail(1)
    \/ ExpandReturn(1)

SpecSetup == InitSetup /\ [][NextSetup]_vars

\* ========================================================================
\* Reference reading of a template text, used to state the properties: the
\* references of a text by the reference syntax (@@, @X, @{name}), read from
\* left to right, and the text an expansion is expected to write.
\* Positions are 1-based and inclusive.
\* ========================================================================
FirstClose(text, p) ==
    LET qs == {q \in p..Len(text) : text[q] = "}"}
    IN  IF qs = {} THEN 0 ELSE Min(qs)

Ref(kind, from, to, name) == [kind |-> kind, from |-> from, to |-> to, name |-> name]

RECURSIVE Scan(_, _, _)
Scan(text, p, defined) ==
    IF p > Len(text) THEN <<>>
    ELSE IF text[p] # "@" THEN Scan(text, p + 1, defined)
    ELSE IF p = Len(text) THEN <<Ref("trailing", p, p, <<>>)>>
    ELSE IF text[p + 1] = "@" THEN
        <<Ref("escape", p, p + 1, <<>>)>> \o Scan(text, p + 2, defined)
    ELSE IF text[p + 1] = "{" THEN
        LET q == FirstClose(text, p + 2)
        IN  IF q = 0 THEN
                <<Ref("unterminated", p, p + 1, <<>>)>> \o Scan(text, p + 2, defined)
            ELSE
                LET name == SubSeq(text, p + 2, q - 1)
                IN  <<Ref(IF name \in defined THEN "defined" ELSE "undefined",
                          p, q, name)>> \o Scan(text, q + 1, defined)
    ELSE
        LET name == <<text[p + 1]>>
        IN  <<Ref(IF name \in defined THEN "defined" ELSE "undefined",
                  p, p + 1, name)>> \o Scan(text, p + 2, defined)

CountKind(refs, kinds) == Cardinality({k \in DOMAIN refs : refs[k].kind \in kinds})

ErrorKinds == {"trailing", "unterminated", "undefined"}

\* The context a field binding of owner C reads: the first one, in argument
\* order, whose type is C or derives from C.
FirstMatch(C) == Min({i \in 1..Len(types) : Convertible(types[i], C)})

MatchCount(C) == Cardinality({i \in 1..Len(types) : Convertible(types[i], C)})

\* The text the evaluator of a binding writes to a sink whose flags are flags.
EvaluatorText(binding, flags) ==
    CASE binding.kind = "value" -> ToText(val, flags)
      [] binding.kind = "field" -> ToText(ctx[FirstMatch(binding.owner)], flags)
      [] binding.kind = "custom" /\ binding.body = "fmt" -> ToText(ctx[1], SetHex(flags))
      [] OTHER -> <<>>

\* The expected output for text: every reference to a name of table replaced
\* by its evaluator's text, @@ by @, an unterminated reference kept as it
\* is, and a reference to an undefined name either dropped or kept.
RECURSIVE Render(_, _, _, _, _)
Render(text, p, table, flags, dropUndefined) ==
    LET ref(name, from, to) ==
            IF name \in DOMAIN table THEN EvaluatorText(table[name], flags)
            ELSE IF dropUndefined THEN <<>>
            ELSE SubSeq(text, from, to)
    IN  IF p > Len(text) THEN <<>>
        ELSE IF text[p] # "@" THEN
            <<text[p]>> \o Render(text, p + 1, table, flags, dropUndefined)
        ELSE IF p = Len(text) THEN <<"@">>
        ELSE IF text[p + 1] = "@" THEN
            <<"@">> \o Render(text, p + 2, table, flags, dropUndefined)
        ELSE IF text[p + 1] = "{" THEN
            LET q == FirstClose(text, p + 2)
            IN  IF q = 0 THEN
                    <<"@", "{">> \o Render(text, p + 2, table, flags, dropUndefined)
                ELSE ref(SubSeq(text, p + 2, q - 1), p, q)
                         \o Render(text, q + 1, table, flags, dropUndefined)
        ELSE ref(<<text[p + 1]>>, p, p + 1)
                 \o Render(text, p + 2, table, flags, dropUndefined)

\* The last call is a parse: call holds its arguments and results.
Parsed == call.op = "parse"

CallRefs == Scan(call.text, 1, DOMAIN call.variables)

OneUndefinedOneDefined ==
    /\ CountKind(CallRefs, {"undefined"}) = 1
    /\ CountKind(CallRefs, {"defined"}) = 1

Done(t) == thr[t].pc = "done"

\* ------------------------------------------------------------------------
\* C1 as stated: with a lenient engine, for a text with one reference to an
\* undefined name and one to a defined variable, parse succeeds and the
\* output has none of the bytes of the undefined reference's span, the
\* defined reference being replaced by its evaluator's output.
C1_Original ==
    (Parsed /\ m_lenient /\ OneUndefinedOneDefined) =>
        /\ call.ret
        /\ \A t \in Threads :
              Done(t) => thr[t].out.buf =
                             Render(call.text, 1, call.variables, thr[t].flags, TRUE)

\* C1 amended: with a lenient engine, for such a text parse succeeds and the
\* output holds the bytes of the undefined reference's span unchanged and in
\* place, the defined reference being replaced by its evaluator's output.
C1_Amended ==
    (Parsed /\ m_lenient /\ OneUndefinedOneDefined) =>
        /\ call.ret
        /\ \A t \in Threads :
              Done(t) => thr[t].out.buf =
                             Render(call.text, 1, call.variables, thr[t].flags, FALSE)

C1_Witness ==
    \E t \in Threads : Parsed /\ m_lenient /\ OneUndefinedOneDefined /\ Done(t)

\* ------------------------------------------------------------------------
\* C2: parse reports success if and only if the engine is lenient or the
\* text has no trailing marker, no unterminated @{ and no undefined name; a
\* strict engine fails on @{missing} with missing undefined and on a text
\* with one undefined and one valid reference.
C2_SuccessIffLenientOrNoError ==
    Parsed =>
        /\ call.ret <=> (m_lenient \/ CountKind(CallRefs, ErrorKinds) = 0)
        /\ (~m_lenient /\ call.text = TextMissing
                /\ SubSeq(TextMissing, 3, 9) \notin DOMAIN call.variables) => ~call.ret
        /\ (~m_lenient /\ OneUndefinedOneDefined) => ~call.ret

C2_Witness == Parsed /\ ~m_lenient /\ OneUndefinedOneDefined /\ ~call.ret

\* ------------------------------------------------------------------------
\* C3: for a text without @, parse succeeds with no Substitution and no
\* diagnostic, and an expansion writes exactly the text.
NoMarker(text) == \A p \in 1..Len(text) : text[p] # "@"

C3_NoMarkerUnchanged ==
    (Parsed /\ NoMarker(call.text)) =>
        /\ call.ret
        /\ call.log = <<>>
        /\ templ = [m_text |-> call.text, m_substitutions |-> <<>>]
        /\ \A t \in Threads : Done(t) => thr[t].out.buf = call.text

C3_Witness ==
    \E t \in Threads : Parsed /\ NoMarker(call.text) /\ Len(call.text) > 1 /\ Done(t)

\* ------------------------------------------------------------------------
\* C4: every @@ the scan finds is recorded as a Substitution without a
\* variable, raises no diagnostic and puts exactly one @ in the output,
\* whatever the leniency and the text around it; "100% @@ done" renders
\* "100% @ done" with no resolved Substitution.
EscapeSpans ==
    {[from |-> CallRefs[k].from, to |-> CallRefs[k].to] :
        k \in {n \in DOMAIN CallRefs : CallRefs[n].kind = "escape"}}

NullSubstitutionSpans ==
    {[from |-> call.substitutions[k].begin + 1, to |-> call.substitutions[k].end] :
        k \in {n \in DOMAIN call.substitutions :
                  call.substitutions[n].var_def = NullPtr}}

C4_EscapeIsOneMarker ==
    Parsed =>
        /\ NullSubstitutionSpans = EscapeSpans
        /\ Len(call.log) = CountKind(CallRefs, ErrorKinds)
        /\ \A t \in Threads :
              (call.ret /\ Done(t)) =>
                  thr[t].out.buf =
                      Render(call.text, 1, call.variables, thr[t].flags, FALSE)
        /\ call.text = TextDone =>
              /\ call.ret
              /\ \A k \in DOMAIN call.substitutions :
                    call.substitutions[k].var_def = NullPtr
              /\ \A t \in Threads :
                    Done(t) => thr[t].out.buf =
                        <<"1", "0", "0", "%", " ", "@", " ", "d", "o", "n", "e">>

C4_Witness ==
    \E t \in Threads :
        /\ Parsed /\ Done(t) /\ call.ret
        /\ EscapeSpans # {}
        /\ CountKind(CallRefs, {"defined"}) > 0

\* ------------------------------------------------------------------------
\* C5: for a template whose references are all resolved to field bindings,
\* each expansion writes the text with every reference span replaced by the
\* text of the bound field in the context of that expansion and every other
\* byte unchanged; "<@x:@y>" with x bound to B.x and y to A.y renders <0:0>,
\* <2:1>, <4:2> as the context is stepped between expansions of the one
\* compiled template.
AllFieldReferences ==
    /\ Parsed
    /\ CallRefs # <<>>
    /\ \A k \in DOMAIN CallRefs :
          /\ CallRefs[k].kind = "defined"
          /\ call.variables[CallRefs[k].name].kind = "field"

ExampleTemplate ==
    /\ Parsed
    /\ call.text = TextXY
    /\ types = <<"A", "B">>
    /\ DOMAIN call.variables = {<<"x">>, <<"y">>}
    /\ call.variables[<<"x">>] = FieldBinding("B")
    /\ call.variables[<<"y">>] = FieldBinding("A")

C5_FieldsRendered ==
    /\ AllFieldReferences =>
          /\ call.ret
          /\ \A t \in Threads :
                Done(t) => thr[t].out.buf =
                    Render(call.text, 1, call.variables, thr[t].flags, FALSE)
    /\ \A t \in Threads :
          (ExampleTemplate /\ Done(t) /\ thr[t].flags = DefaultFlags) =>
              /\ ctx = <<0, 0>> => thr[t].out.buf = <<"<", "0", ":", "0", ">">>
              /\ ctx = <<1, 2>> => thr[t].out.buf = <<"<", "2", ":", "1", ">">>
              /\ ctx = <<2, 4>> => thr[t].out.buf = <<"<", "4", ":", "2", ">">>

C5_Witness ==
    \E t \in Threads :
        /\ ExampleTemplate /\ Done(t) /\ thr[t].flags = DefaultFlags
        /\ ctx = <<2, 4>>
        /\ thr[t].out.buf = <<"<", "4", ":", "2", ">">>

\* ------------------------------------------------------------------------
\* C6: a definition under a name that is already defined fails at the
\* define call itself, in a strict and in a lenient engine, also when no
\* parse has been made.
C6_DuplicateDefineFails ==
    [][(call'.op = "define" /\ definesLeft' # definesLeft
            /\ call'.name \in DOMAIN m_variables)
          => call'.thrown # "none"]_vars

C6_Witness ==
    /\ call.op = "define"
    /\ call.thrown = "runtime_error"
    /\ m_lenient
    /\ parsesLeft = MaxParses

\* ------------------------------------------------------------------------
\* C7 as stated: a field binding whose owner type matches none, or more than
\* one, of the engine's context types is rejected at define.
C7_Original ==
    (call.op = "define" /\ call.binding.kind = "field"
        /\ MatchCount(call.binding.owner) # 1) => call.thrown # "none"

\* C7 amended: a field binding whose owner type matches none of the engine's
\* context types is rejected where it is defined; one whose owner type
\* matches several is not rejected for that, and an expansion reads the
\* field from the first matching context in argument order.
SomeAmbiguousReference ==
    /\ Parsed
    /\ call.ret
    /\ \E k \in DOMAIN CallRefs :
          /\ CallRefs[k].kind = "defined"
          /\ call.variables[CallRefs[k].name].kind = "field"
          /\ MatchCount(call.variables[CallRefs[k].name].owner) > 1

C7_Amended ==
    /\ (call.op = "define" /\ call.binding.kind = "field") =>
          (call.thrown = "ill_formed" <=> MatchCount(call.binding.owner) = 0)
    /\ \A name \in DOMAIN m_variables :
          m_variables[name].kind = "field" => MatchCount(m_variables[name].owner) >= 1
    /\ \A t \in Threads :
          (SomeAmbiguousReference /\ Done(t)) =>
              thr[t].out.buf =
                  Render(call.text, 1, call.variables, thr[t].flags, FALSE)

C7_Witness ==
    \E t \in Threads : SomeAmbiguousReference /\ Done(t) /\ ctx # <<0, 0>>

\* ------------------------------------------------------------------------
\* C8: expansions of the one template with the same context write the same
\* bytes to each sink, also when the two calls are interleaved step by step
\* (the sinks start in the same formatting state and accept every write;
\* the context and the template do not change while a call is in progress).
C8_SameOutput ==
    \A t1 \in Threads, t2 \in Threads :
        (/\ thr[t1].pc \in {"done", "thrown"}
         /\ thr[t1].pc = thr[t2].pc
         /\ thr[t1].fault # "sink" /\ thr[t2].fault # "sink"
         /\ thr[t1].flags = thr[t2].flags)
          => thr[t1].out.buf = thr[t2].out.buf

C8_Witness ==
    /\ \A t \in Threads : Done(t)
    /\ thr[1].flags = thr[2].flags
    /\ \E k \in DOMAIN templ.m_substitutions :
          templ.m_substitutions[k].var_def # NullPtr
    /\ Len(thr[1].out.buf) > 2

\* ------------------------------------------------------------------------
\* C9: a parse of the same text with the same variable table as the parse
\* before it returns the same outcome and the same Substitutions, and leaves
\* in the Template what the first parse left.
C9_ParseDeterministic ==
    [][(call.op = "parse" /\ call'.op = "parse" /\ parsesLeft' # parsesLeft
            /\ call'.again)
          => /\ call'.ret = call.ret
             /\ call'.substitutions = call.substitutions
             /\ call.ret => templ' = templ]_vars

C9_Witness ==
    /\ Parsed /\ call.again /\ call.ret
    /\ call.substitutions # <<>>
    /\ call.log # <<>>

\* ------------------------------------------------------------------------
\* C10 as stated: once an evaluator called by expand has returned or failed,
\* the sink's formatting state is what it was just before the evaluator ran,
\* before the next Substitution and before the failure reaches the caller.
Settled(t) == thr[t].pc \in {"loop", "done", "thrown"}

C10_Original ==
    \A t \in Threads : Settled(t) => Formatting(thr[t].out) = thr[t].pre

\* C10 amended: once an evaluator called by expand has returned or failed,
\* the sink's formatting flags are what they were just before the evaluator
\* ran, before the next Substitution and before the failure reaches the
\* caller; the fill character an evaluator set stays as it set it.
C10_Amended ==
    \A t \in Threads : Settled(t) => thr[t].out.flags = thr[t].pre.flags

C10_Witness ==
    /\ thr[1].pc = "thrown" /\ thr[1].out.fill = "*"
    /\ thr[2].pc = "loop" /\ thr[2].out.fill = "*"
    /\ thr[2].flags # DefaultFlags

\* ------------------------------------------------------------------------
\* C11: when the sink's write or an evaluator throws during expand at
\* Substitution k, the expansion stops at once: what the sink holds is what
\* was written before the failure (the output for the text before
\* Substitution k, with or without the literal before it), no later
\* Substitution is evaluated and nothing more is written, and the call ends
\* with the exception, the sink's flags being those saved on entry.
Failing(t) == thr[t].pc \in {"caught", "thrown"}

WrittenBefore(t) ==
    Render(SubSeq(call.text, 1, thr[t].curr), 1, call.variables, thr[t].flags, FALSE)

LiteralOf(t) ==
    IF thr[t].idx <= Len(call.substitutions)
    THEN SubSeq(call.text, thr[t].curr + 1, call.substitutions[thr[t].idx].begin)
    ELSE <<>>

ResolvedNames ==
    {CallRefs[k].name : k \in {n \in DOMAIN CallRefs : CallRefs[n].kind = "defined"}}

C12_RefersToResolved ==
    (Parsed /\ call.asked.made) =>
        /\ call.ret => (call.asked.ret <=> call.asked.name \in ResolvedNames)
        /\ templ = EmptyTemplate => ~call.asked.ret
        /\ call.asked.name \notin DOMAIN call.variables => ~call.asked.ret

C12_Witness ==
    /\ Parsed /\ call.ret /\ call.asked.made /\ call.asked.ret
    /\ CountKind(CallRefs, {"escape"}) > 0

\* ------------------------------------------------------------------------
\* C13: the Substitutions of a Template are in ascending text order and do
\* not overlap: each has begin < end <= length of the text, its begin is the
\* offset of a marker byte and is not less than the end of the one before;
\* those a parse collects are the spans of the escapes and of the references
\* to defined names, in the order of the text.
Ordered(text, substitutions) ==
    \A k \in DOMAIN substitutions :
        /\ 0 <= substitutions[k].begin
        /\ substitutions[k].begin < substitutions[k].end
        /\ substitutions[k].end <= Len(text)
        /\ text[substitutions[k].begin + 1] = "@"
        /\ k > 1 => substitutions[k].begin >= substitutions[k - 1].end

RECURSIVE SpansOf(_)
SpansOf(refs) ==
    IF refs = <<>> THEN <<>>
    ELSE (IF Head(refs).kind \in {"escape", "defined"}
          THEN <<[begin |-> Head(refs).from - 1, end |-> Head(refs).to]>>
          ELSE <<>>) \o SpansOf(Tail(refs))

C13_AscendingDisjoint ==
    /\ Ordered(templ.m_text, templ.m_substitutions)
    /\ Parsed =>
          /\ Ordered(call.text, call.substitutions)
          /\ [k \in DOMAIN call.substitutions |->
                 [begin |-> call.substitutions[k].begin,
                  end   |-> call.substitutions[k].end]] = SpansOf(CallRefs)

C13_Witness ==
    /\ Parsed /\ call.ret
    /\ Len(templ.m_substitutions) = 2
    /\ templ.m_substitutions[2].begin = templ.m_substitutions[1].end
    /\ templ.m_substitutions[1].var_def # NullPtr
    /\ CountKind(CallRefs, {"undefined"}) = 0

\* ------------------------------------------------------------------------
\* C14: every diagnostic of one parse call has level warn when the engine is
\* lenient and level error when it is not, for each of the three kinds of
\* error and for each logger that receives it, the parse of
\* Substituter::expand included.
LevelFor(lenient) == IF lenient THEN "warn" ELSE "error"

AllAtLevel(log, level) == \A k \in DOMAIN log : log[k].level = level

C14_SeverityByLeniency ==
    /\ Parsed =>
          /\ AllAtLevel(call.log, LevelFor(m_lenient))
          /\ \A l \in Loggers : AllAtLevel(call.sent[l], LevelFor(m_lenient))
    /\ \A t \in Threads :
          thr[t].conv.made => AllAtLevel(thr[t].conv.log, LevelFor(m_lenient))

C14_Witness ==
    /\ Parsed /\ m_lenient
    /\ call.logger_arg # NullPtr
    /\ Len(call.sent["supplied"]) = 2
    /\ call.sent["supplied"][1].msg # call.sent["supplied"][2].msg
    /\ thr[2].conv.made /\ thr[2].conv.log # <<>>

\* ------------------------------------------------------------------------
\* C15: Substituter::expand(text, out, context) returns what a parse of text
\* returns; when that is true it has written what one expansion of the
\* Template of that parse writes to a sink in the same state, and when it is
\* false it has written nothing.
SameParse(t) ==
    /\ Parsed
    /\ thr[t].conv.made
    /\ call.text = thr[t].conv.text
    /\ call.variables = m_variables

C15_ExpandIsParseThenExpand ==
    \A t \in Threads :
        thr[t].conv.made =>
            /\ thr[t].pc = "failed" <=> ~thr[t].conv.ret
            /\ ~thr[t].conv.ret => thr[t].out.buf = <<>>
            /\ thr[t].pc = "done" =>
                   thr[t].out.buf =
                       Render(thr[t].conv.text, 1, m_variables, thr[t].flags, FALSE)
            /\ SameParse(t) =>
                   /\ thr[t].conv.ret = call.ret
                   /\ thr[t].conv.log = call.log
                   /\ \A u \in Threads :
                         (/\ ~thr[u].conv.made
                          /\ call.ret
                          /\ thr[u].pc \in {"done", "thrown"}
                          /\ thr[u].flags = thr[t].flags)
                           => /\ thr[t].pc = thr[u].pc
                              /\ thr[t].out.buf = thr[u].out.buf

C15_Witness ==
    /\ SameParse(2) /\ call.ret /\ ~thr[1].conv.made
    /\ thr[1].pc = "done" /\ thr[2].pc = "done"
    /\ templ.m_substitutions # <<>>
    /\ thr[2].out.buf # thr[2].conv.text
    /\ call.log # <<>>

\* ------------------------------------------------------------------------
\* C16: parse(text, templ) sends every diagnostic to the logger the engine
\* was constructed with and to no other; parse(text, templ, logger) sends
\* every diagnostic to that logger and none to the engine's.
C16_DiagnosticsToLogger ==
    Parsed =>
        /\ call.logger_arg = NullPtr =>
               \A l \in Loggers :
                   call.sent[l] = IF l = m_logger THEN call.log ELSE <<>>
        /\ call.logger_arg # NullPtr =>
               /\ call.sent[call.logger_arg[1]] = call.log
               /\ \A l \in Loggers \ {call.logger_arg[1]} : call.sent[l] = <<>>

C16_Witness ==
    /\ Parsed /\ m_logger = "configured"
    /\ call.logger_arg = NullPtr
    /\ Len(call.sent["configured"]) = 2

\* ------------------------------------------------------------------------
\* C17: no step of an expansion, alone or interleaved with the steps of
\* another, changes the Template or the variable table: through all the
\* expansions that follow a parse the Template is what the parse left and
\* the table is the one the parse read.
AsParsed(t, m) ==
    (Parsed /\ call.ret) =>
        /\ t = [m_text |-> call.text, m_substitutions |-> call.substitutions]
        /\ m = call.variables

C17_ExpandReadsOnly ==
    [][thr' # thr =>
          /\ templ' = templ
          /\ m_variables' = m_variables
          /\ AsParsed(templ, m_variables) /\ AsParsed(templ', m_variables')]_vars

C17_Witness ==
    /\ Parsed /\ call.ret
    /\ Len(call.substitutions) = 2
    /\ thr[1].pc = "thrown" /\ thr[1].idx = 2
    /\ thr[2].pc = "evaluated" /\ thr[2].idx = 1
    /\ templ.m_substitutions = call.substitutions

\* ------------------------------------------------------------------------
\* C18: the evaluator of a value binding writes the text of the bound
\* variable as it is when the expansion runs, whatever the context: a
\* template whose references are all to value bindings renders with every
\* reference replaced by the text of the variable's current value, and
\* "<@x:@y>" renders <11:11> once 11 has been stored, for every context.
AllValueReferences ==
    /\ Parsed
    /\ CallRefs # <<>>
    /\ \A k \in DOMAIN CallRefs :
          /\ CallRefs[k].kind = "defined"
          /\ call.variables[CallRefs[k].name].kind = "value"

C18_ValueAtExpansion ==
    \A t \in Threads :
        (AllValueReferences /\ Done(t)) =>
            /\ thr[t].out.buf =
                   Render(call.text, 1, call.variables, thr[t].flags, FALSE)
            /\ (call.text = TextXY /\ val = 11 /\ thr[t].flags = DefaultFlags) =>
                   thr[t].out.buf = <<"<", "1", "1", ":", "1", "1", ">">>

C18_Witness ==
    /\ AllValueReferences /\ Done(1)
    /\ call.text = TextXY /\ thr[1].flags = DefaultFlags
    /\ val = 11
    /\ ctx # <<0, 0>>

\* ------------------------------------------------------------------------
\* C19 as stated: with a lenient engine, the bytes of a trailing @ and of an
\* @{ without a closing brace are absent from the output: an expansion
\* writes what it would write for the text without those bytes.
UnterminatedKinds == {"trailing", "unterminated"}

UnterminatedBytes ==
    {p \in 1..Len(call.text) :
        \E k \in DOMAIN CallRefs :
            /\ CallRefs[k].kind \in UnterminatedKinds
            /\ CallRefs[k].from <= p /\ p <= CallRefs[k].to}

Erased ==
    LET kept == SelectSeq([p \in 1..Len(call.text) |-> p],
                          LAMBDA p : p \notin UnterminatedBytes)
    IN  [k \in 1..Len(kept) |-> call.text[kept[k]]]

SomeUnterminated == Parsed /\ m_lenient /\ UnterminatedBytes # {}

C19_Original ==
    SomeUnterminated =>
        \A t \in Threads :
            Done(t) => thr[t].out.buf =
                           Render(Erased, 1, call.variables, thr[t].flags, FALSE)

\* C19 amended: with a lenient engine, parse succeeds and the bytes of a
\* trailing @ and of an @{ without a closing brace are in the output,
\* unchanged and in place: the output is longer than that for the text
\* without them by their number and ends with @ when the text does.
C19_Amended ==
    SomeUnterminated =>
        /\ call.ret
        /\ \A t \in Threads :
              Done(t) =>
                  /\ thr[t].out.buf =
                         Render(call.text, 1, call.variables, thr[t].flags, FALSE)
                  /\ Len(thr[t].out.buf) =
                         Len(Render(Erased, 1, call.variables, thr[t].flags, FALSE))
                             + Cardinality(UnterminatedBytes)
                  /\ CountKind(CallRefs, {"trailing"}) = 1 =>
                         thr[t].out.buf[Len(thr[t].out.buf)] = "@"

C19_Witness ==
    /\ SomeUnterminated /\ Done(1)
    /\ CountKind(CallRefs, {"unterminated"}) = 1
    /\ CountKind(CallRefs, {"trailing"}) = 1
    /\ Len(thr[1].out.buf) = Len(call.text)

\* ------------------------------------------------------------------------
\* C20: a parse logs one diagnostic for each offending reference of the
\* text (trailing @, @{ without closing brace, undefined name), in the order
\* of the text, the undefined ones with their name and their excerpt; it
\* does so in a strict engine as in a lenient one, going on after each error.
MessageOf(kind) ==
    CASE kind = "trailing" -> "Unterminated @ at end of text"
      [] kind = "unterminated" -> "Unterminated @{"
      [] kind = "undefined" -> "Undefined variable %1 in substitution %2"

Offending == SelectSeq(CallRefs, LAMBDA r : r.kind \in ErrorKinds)

C20_OneDiagnosticPerError ==
    Parsed =>
        /\ Len(call.log) = Len(Offending)
        /\ \A k \in DOMAIN Offending :
              /\ call.log[k].msg = MessageOf(Offending[k].kind)
              /\ Offending[k].kind = "undefined" =>
                     /\ call.log[k].var_name = Offending[k].name
                     /\ call.log[k].excerpt =
                            SubSeq(call.text, Offending[k].from, Offending[k].to)

C20_Witness ==
    /\ Parsed /\ ~m_lenient /\ ~call.ret
    /\ Len(call.log) = 2
    /\ call.log[1].msg = MessageOf("unterminated")
    /\ call.log[2].msg = MessageOf("undefined")

\* ------------------------------------------------------------------------
\* C21: for an @{ at offset i with no closing brace after it, parse records
\* no Substitution over its two bytes and goes on at offset i + 2: the
\* references after it are recorded when they resolve and diagnosed when
\* they do not, as many as the text has after it; "@{@x" gives the
\* Substitution [2, 4) for x when x is defined and a second diagnostic when
\* it is not.
TextOpenThenX == <<"@", "{", "@", "x">>

RefsAfter(k, kinds) ==
    Cardinality({n \in DOMAIN CallRefs : n > k /\ CallRefs[n].kind \in kinds})

SubstitutionsFrom(offset) ==
    Cardinality({n \in DOMAIN call.substitutions :
                    call.substitutions[n].begin >= offset})

\* The place in the log of the diagnostic of the k-th reference.
DiagnosticOf(k) == CountKind(SubSeq(CallRefs, 1, k), ErrorKinds)

C21_ResumesAfterOpenBrace ==
    Parsed =>
        /\ \A k \in DOMAIN CallRefs :
              CallRefs[k].kind = "unterminated" =>
                  LET i == CallRefs[k].from - 1
                  IN  /\ \A n \in DOMAIN call.substitutions :
                            \/ call.substitutions[n].end <= i
                            \/ call.substitutions[n].begin >= i + 2
                      /\ SubstitutionsFrom(i + 2) = RefsAfter(k, {"escape", "defined"})
                      /\ DiagnosticOf(k) <= Len(call.log)
                      /\ call.log[DiagnosticOf(k)].msg = "Unterminated @{"
                      /\ Len(call.log) = DiagnosticOf(k) + RefsAfter(k, ErrorKinds)
                      /\ \A p \in (i + 3)..Len(call.text) :
                            call.text[p] = "@" =>
                                \E n \in DOMAIN CallRefs :
                                    /\ n > k
                                    /\ CallRefs[n].from <= p /\ p <= CallRefs[n].to
        /\ call.text = TextOpenThenX =>
              IF <<"x">> \in DOMAIN call.variables
              THEN /\ call.substitutions = <<Substitution(2, 4, PtrTo(<<"x">>))>>
                   /\ Len(call.log) = 1
              ELSE /\ call.substitutions = <<>>
                   /\ Len(call.log) = 2
                   /\ call.log[2].var_name = <<"x">>

C21_Witness ==
    /\ Parsed /\ ~m_lenient
    /\ call.text = TextOpenThenX
    /\ call.substitutions = <<Substitution(2, 4, PtrTo(<<"x">>))>>
    /\ Len(call.log) = 1

\* ------------------------------------------------------------------------
\* C22: a marker the scan reaches as the last byte of the text is diagnosed
\* as unterminated and is the last thing the scan does; markers pair from
\* the left, so a text of n markers has n / 2 escapes and a diagnostic when
\* n is odd; "a@@" parses without a diagnostic, "@@@" is the escape [0, 2)
\* followed by the diagnostic.
TextAThenEscape == <<"a", "@", "@">>

TextThreeMarkers == <<"@", "@", "@">>

OnlyMarkers(text) == \A p \in 1..Len(text) : text[p] = "@"

TrailingDiagnostics ==
    {k \in DOMAIN call.log : call.log[k].msg = "Unterminated @ at end of text"}

C22_TrailingMarker ==
    Parsed =>
        /\ TrailingDiagnostics =
              IF CountKind(CallRefs, {"trailing"}) = 1 THEN {Len(call.log)} ELSE {}
        /\ TrailingDiagnostics # {} =>
              /\ call.text[Len(call.text)] = "@"
              /\ \A n \in DOMAIN call.substitutions :
                    call.substitutions[n].end < Len(call.text)
              /\ call.ret = m_lenient
        /\ OnlyMarkers(call.text) =>
              /\ Len(call.substitutions) = Len(call.text) \div 2
              /\ Len(call.log) = Len(call.text) % 2
        /\ call.text = TextAThenEscape =>
              /\ call.ret /\ call.log = <<>>
              /\ call.substitutions = <<Substitution(1, 3, NullPtr)>>
        /\ call.text = TextThreeMarkers =>
              /\ call.substitutions = <<Substitution(0, 2, NullPtr)>>
              /\ Len(call.log) = 1 /\ TrailingDiagnostics = {1}

C22_Witness ==
    /\ Parsed /\ call.text = TextThreeMarkers
    /\ call.substitutions = <<Substitution(0, 2, NullPtr)>>
    /\ TrailingDiagnostics = {1}
    /\ ~call.ret

\* ------------------------------------------------------------------------
\* C23: the name of a braced reference is every byte between @{ and the
\* first } after it, marker bytes included: the reference is resolved or
\* diagnosed under that name, nothing inside it is recorded as a reference
\* of its own, and the scan goes on just past the brace; "@{@@}" is one
\* reference to the variable named @@.
TextBracedEscape == <<"@", "{", "@", "@", "}">>

EscapeName == <<"@", "@">>

Braced(k) ==
    /\ CallRefs[k].kind \in {"defined", "undefined"}
    /\ call.text[CallRefs[k].from + 1] = "{"

NameBytes(k) == SubSeq(call.text, CallRefs[k].from + 2, CallRefs[k].to - 1)

C23_BracedNameIsOpaque ==
    Parsed =>
        /\ \A k \in DOMAIN CallRefs :
              Braced(k) =>
                  /\ call.text[CallRefs[k].to] = "}"
                  /\ \A p \in DOMAIN NameBytes(k) : NameBytes(k)[p] # "}"
                  /\ CallRefs[k].kind = "defined" =>
                         \E n \in DOMAIN call.substitutions :
                             call.substitutions[n] =
                                 Substitution(CallRefs[k].from - 1, CallRefs[k].to,
                                              PtrTo(NameBytes(k)))
                  /\ CallRefs[k].kind = "undefined" =>
                         /\ call.log[DiagnosticOf(k)].var_name = NameBytes(k)
                         /\ call.log[DiagnosticOf(k)].excerpt =
                                SubSeq(call.text, CallRefs[k].from, CallRefs[k].to)
                  /\ \A n \in DOMAIN call.substitutions :
                         \/ call.substitutions[n].begin <= CallRefs[k].from - 1
                         \/ call.substitutions[n].begin >= CallRefs[k].to
                  /\ SubstitutionsFrom(CallRefs[k].to) =
                         RefsAfter(k, {"escape", "defined"})
        /\ call.text = TextBracedEscape =>
              IF EscapeName \in DOMAIN call.variables
              THEN /\ call.substitutions = <<Substitution(0, 5, PtrTo(EscapeName))>>
                   /\ call.log = <<>>
              ELSE /\ call.substitutions = <<>>
                   /\ Len(call.log) = 1
                   /\ call.log[1].var_name = EscapeName
        /\ (call.ret /\ Done(1)) =>
              thr[1].out.buf = Render(call.text, 1, call.variables, thr[1].flags, FALSE)

C23_Witness ==
    /\ Parsed /\ Done(1)
    /\ Len(call.substitutions) = 2
    /\ call.substitutions[1] = Substitution(0, 5, PtrTo(EscapeName))
    /\ call.variables[EscapeName] = ValueBinding
    /\ thr[1].out.buf = <<"1", "0", "0">>

\* ------------------------------------------------------------------------
\* C28: with a variable named @ defined, every @@ is still recorded as a
\* Substitution without a variable that renders one @, and refers_to("@") is
\* true only for a template with the braced reference @{@}, the one form
\* that is resolved to that variable.
MarkerName == <<"@">>

TextEscape == <<"@", "@">>

TextBracedMarker == <<"@", "{", "@", "}">>

MarkerDefined == Parsed /\ MarkerName \in DOMAIN call.variables

C28_MarkerNameKeepsEscape ==
    MarkerDefined =>
        /\ NullSubstitutionSpans = EscapeSpans
        /\ \A n \in DOMAIN call.substitutions :
              call.substitutions[n].var_def = PtrTo(MarkerName) =>
                  SubSeq(call.text, call.substitutions[n].begin + 1,
                         call.substitutions[n].end) = TextBracedMarker
        /\ (call.ret /\ call.asked.made /\ call.asked.name = MarkerName) =>
              (call.asked.ret <=>
                  \E k \in DOMAIN CallRefs : Braced(k) /\ NameBytes(k) = MarkerName)
        /\ call.text = TextEscape =>
              /\ call.ret /\ call.log = <<>>
              /\ call.substitutions = <<Substitution(0, 2, NullPtr)>>
              /\ call.asked.made => ~call.asked.ret
              /\ Done(1) => thr[1].out.buf = <<"@">>
        /\ call.text = TextBracedMarker =>
              /\ call.ret /\ call.log = <<>>
              /\ call.substitutions = <<Substitution(0, 4, PtrTo(MarkerName))>>
              /\ Done(1) => thr[1].out.buf =
                               EvaluatorText(call.variables[MarkerName], thr[1].flags)

C28_Witness ==
    /\ MarkerDefined /\ Done(1)
    /\ call.text = TextEscape
    /\ call.asked.made /\ call.asked.name = MarkerName /\ ~call.asked.ret
    /\ thr[1].out.buf = <<"@">>

\* ------------------------------------------------------------------------
\* C24: a parse call, once entered, returns: every iteration of the scan
\* loop either ends the loop or moves the cursor forward, within the text;
\* the loop ends only when no marker lies at or after the cursor or the
\* first one that does is the last byte of the text; the iterations are at
\* most one more than half the length of the text.
NoMarkerFrom(text, curr) == \A p \in (curr + 1)..Len(text) : text[p] # "@"

FirstMarkerIsLast(text, curr) ==
    /\ Len(text) > curr
    /\ text[Len(text)] = "@"
    /\ \A p \in (curr + 1)..(Len(text) - 1) : text[p] # "@"

Iteration == scan.active /\ scan'.active /\ scan'.iters = scan.iters + 1

C24_ParseTerminates ==
    /\ [][Iteration =>
             /\ scan'.st.curr <= Len(scan.text)
             /\ scan'.iters <= Len(scan.text) \div 2 + 1
             /\ IF scan'.st.done
                THEN /\ scan'.st.curr = scan.st.curr
                     /\ \/ NoMarkerFrom(scan.text, scan.st.curr)
                        \/ FirstMarkerIsLast(scan.text, scan.st.curr)
                ELSE scan'.st.curr > scan.st.curr]_vars
    /\ scan.active ~> ~scan.active

C24_Witness ==
    /\ scan.active /\ scan.st.done
    /\ scan.iters = 3
    /\ Len(scan.st.substitutions) = 1
    /\ Len(scan.st.log) = 1

\* ------------------------------------------------------------------------
\* C25: a parse that fails leaves the Template it was given as it was, text
\* and Substitutions; a parse that succeeds leaves in it the new text and
\* the Substitutions of the new text only.
ParseReturned == call'.op = "parse" /\ parsesLeft' # parsesLeft

SpansIn(t) ==
    [k \in DOMAIN t.m_substitutions |->
        [begin |-> t.m_substitutions[k].begin, end |-> t.m_substitutions[k].end]]

C25_FailedParseKeepsTemplate ==
    [][ParseReturned =>
          IF call'.ret
          THEN /\ templ'.m_text = call'.text
               /\ templ'.m_substitutions = call'.substitutions
               /\ SpansIn(templ') =
                      SpansOf(Scan(call'.text, 1, DOMAIN call'.variables))
          ELSE /\ ~m_lenient
               /\ templ' = templ]_vars

C25_Witness ==
    /\ Parsed /\ ~call.ret
    /\ templ.m_text # call.text
    /\ templ.m_substitutions # <<>>
    /\ call.substitutions # <<>>


\* ------------------------------------------------------------------------
\* C26: a define of a name that is already defined leaves the variable table
\* as it was, so the name keeps its first evaluator, and it leaves the
\* compiled template as it was; a template parsed before the failed define
\* renders the first binding, and so does every template parsed from the
\* table afterwards.
\* ------------------------------------------------------------------------
DefineReturned == call'.op = "define" /\ definesLeft' # definesLeft

FailedDefine == call.op = "define" /\ call.thrown = "runtime_error"

RendersPrior(t) ==
    thr[t].out.buf = Render(call.prior.text, 1, call.prior.variables, thr[t].flags, FALSE)

C26_FailedDefineKeepsTable ==
    [][/\ (DefineReturned /\ call'.name \in DOMAIN m_variables) =>
              /\ call'.thrown = "runtime_error"
              /\ m_variables' = m_variables
              /\ templ' = templ
       /\ (FailedDefine /\ call.prior.made /\ call.prior.ret /\ Done(1)) =>
              /\ call.prior.variables = m_variables
              /\ RendersPrior(1)
              /\ (call.prior.text = TextTwoRefs /\ <<"x">> \in DOMAIN m_variables
                    /\ m_variables[<<"x">>] = ValueBinding
                    /\ <<"y">> \notin DOMAIN m_variables)
                     => thr[1].out.buf = <<"1", "0", "@", "y">>
       /\ (Parsed /\ call.ret /\ Done(1)) =>
              /\ call.variables = m_variables
              /\ thr[1].out.buf =
                     Render(call.text, 1, m_variables, thr[1].flags, FALSE)]_vars

C26_Witness ==
    /\ FailedDefine
    /\ call.name = <<"x">>
    /\ call.binding # ValueBinding
    /\ m_variables[<<"x">>] = ValueBinding
    /\ call.prior.made
    /\ call.prior.ret
    /\ call.prior.text = TextTwoRefs
    /\ Done(1)
    /\ thr[1].out.buf = <<"1", "0", "@", "y">>

\* ------------------------------------------------------------------------
\* C27: a define of a new name made after a parse succeeds; it leaves the
\* template compiled by that parse as it was, and an expansion of that
\* template writes what it wrote before the define, the reference to the new
\* name still being literal text; a parse made after the define resolves
\* the new name.
\* ------------------------------------------------------------------------
LateDefine == call.op = "define" /\ call.thrown = "none" /\ call.prior.made

C27_DefineAfterParse ==
    [][/\ (DefineReturned /\ call.op = "parse" /\ call'.name \notin DOMAIN m_variables) =>
              /\ call'.thrown = "none"
              /\ call'.name \in DOMAIN m_variables'
              /\ m_variables'[call'.name] = call'.binding
              /\ \A n \in DOMAIN m_variables : m_variables'[n] = m_variables[n]
              /\ templ' = templ
       /\ (LateDefine /\ call.prior.ret) =>
              /\ call.name \notin DOMAIN call.prior.variables
              /\ templ.m_substitutions = call.prior.substitutions
              /\ SpansIn(templ) =
                     SpansOf(Scan(call.prior.text, 1, DOMAIN call.prior.variables))
              /\ Done(1) => RendersPrior(1)
       /\ (Parsed /\ call.ret) =>
              SpansIn(templ) = SpansOf(Scan(call.text, 1, DOMAIN m_variables))]_vars

C27_Witness ==
    /\ LateDefine
    /\ call.name = <<"y">>
    /\ call.prior.text = TextTwoRefs
    /\ call.prior.ret
    /\ <<"y">> \in DOMAIN m_variables
    /\ Len(templ.m_substitutions) = 1
    /\ Done(1)
    /\ thr[1].out.buf = <<"1", "0", "@", "y">>

====
